---- MODULE Spec2Model ----
(***************************************************************************)
(* JEF Assessment System (src/app.py): loading and cleaning the reference  *)
(* table, filtering it by age and IQ, per-construct mean / SD / z-score,   *)
(* and the z-score chart.                                                  *)
(*                                                                         *)
(* Numbers.  Cell values are integers.  A mean is the exact fraction       *)
(* num/den.  A standard deviation is kept as its square, the fraction      *)
(* sqnum/sqden (the sample variance), and a z-score as its sign together   *)
(* with its square sqnum/sqden in lowest terms, so that no square root is  *)
(* rounded.                                                                *)
(***************************************************************************)
EXTENDS Integers, Sequences, FiniteSets

VARIABLES
    source,        \* the spreadsheet on disk: status, header, raw rows
    pc,            \* position of the session: "start", "ready", "returned"
    jef_df,        \* the table load_data returned
    messages,      \* what st.error / st.warning showed in the latest run
    sidebar,       \* <<>> or <<the values the sidebar widgets hold>>
    pressed,       \* the Calculate button was pressed in the latest run
    filtered_df,   \* <<>> or <<the subset built at app.py:149-152>>
    stats_called,  \* calculate_stats was invoked in the latest run
    stats_df,      \* the statistics table of the latest run (<<>> if none)
    z_scores,      \* the z-score list of the latest run
    fig            \* <<>> or <<the figure handed to st.plotly_chart>>

vars == <<source, pc, jef_df, messages, sidebar, pressed, filtered_df, stats_called,
          stats_df, z_scores, fig>>

\* Largest number of rows of a source table.
MaxRows == 3

---------------------------------------------------------------------------
\* Cells

Num(v) == [t |-> "num", v |-> v, s |-> ""]
Text(s) == [t |-> "text", v |-> 0, s |-> s]
NaN == [t |-> "nan", v |-> 0, s |-> ""]

\* pd.isna of one value
isna(c) == c.t = "nan"

\* The numeric strings among the texts of the model, with their values.
ParseNumber(s) ==
    CASE s = "30" -> <<30>>
      [] s = "100" -> <<100>>
      [] OTHER -> <<>>

\* pd.to_numeric(..., errors='coerce') on one cell
to_numeric(c) ==
    IF c.t = "num" THEN c
    ELSE IF c.t = "text" /\ ParseNumber(c.s) # <<>> THEN Num(ParseNumber(c.s)[1])
    ELSE NaN

---------------------------------------------------------------------------
\* Tables

jef_constructs == <<"PL", "PR", "ST", "CT", "AT", "EBPM", "ABPM", "TBPM", "AVG">>

IdColumns == <<"experimenter", "study", "participant">>

Range(seq) == {seq[k] : k \in 1..Len(seq)}

\* pd.DataFrame()
EmptyDataFrame == [columns |-> <<>>, rows |-> <<>>]

\* DataFrame.empty: either axis has length 0
df_empty(df) == Len(df.columns) = 0 \/ Len(df.rows) = 0

ColumnValues(df, c) == [k \in 1..Len(df.rows) |-> df.rows[k][c]]

---------------------------------------------------------------------------
\* The source file

\* One raw spreadsheet row over every column the model knows.
MkRow(age, iq, pl, tbpm) ==
    [c \in Range(jef_constructs) \cup Range(IdColumns) \cup {"age", "est_IQ"} |->
        CASE c = "age" -> age
          [] c = "est_IQ" -> iq
          [] c = "PL" -> Num(pl)
          [] c = "PR" -> Num(100)
          [] c = "ST" -> Num(2 * pl - 50)
          [] c = "CT" -> Num(25)
          [] c = "AT" -> Num(0)
          [] c = "EBPM" -> NaN
          [] c = "ABPM" -> Num(pl + 25)
          [] c = "TBPM" -> tbpm
          [] c = "AVG" -> Num(pl - 3)
          [] OTHER -> Text("id")]

\* The rows a source table is made of: three that load (one of them with its
\* covariates stored as text), one whose age is not a number and one whose
\* est_IQ is missing.
RowPool ==
    << MkRow(Num(18), Num(70), 40, Num(50)),
       MkRow(Text("30"), Text("100"), 50, NaN),
       MkRow(Num(90), Num(140), 60, NaN),
       MkRow(Text("abc"), Num(100), 50, Num(50)),
       MkRow(Num(30), NaN, 60, Num(50)) >>

\* Tables of n rows, listed in pool order: nothing in the program depends on
\* the order of the rows.
RowChoices(n) ==
    { f \in [1..n -> 1..Len(RowPool)] : \A i \in 1..(n - 1) : f[i] <= f[i + 1] }

\* Header rows: identifier columns present, identifier columns absent, and
\* the covariates ahead of the constructs.
HeaderPool ==
    { IdColumns \o jef_constructs \o <<"age", "est_IQ">>,
      jef_constructs \o <<"age", "est_IQ">>,
      <<"age", "est_IQ">> \o jef_constructs }

Restrict(row, cols) == [c \in cols |-> row[c]]

SourcePool ==
    { [status |-> "ok", columns |-> h,
       rows |-> [k \in 1..Len(rs) |-> Restrict(RowPool[rs[k]], Range(h))]] :
        h \in HeaderPool,
        rs \in UNION {RowChoices(n) : n \in 0..MaxRows} }
    \cup { [status |-> st, columns |-> <<>>, rows |-> <<>>] :
             st \in {"missing", "corrupt"} }

---------------------------------------------------------------------------
\* load_data

Error(text) == [level |-> "error", text |-> text]
Warning(text) == [level |-> "warning", text |-> text]

\* jef_data[col] = pd.to_numeric(jef_data[col], errors='coerce')
coerce_column(rows, col) ==
    [k \in 1..Len(rows) |-> [rows[k] EXCEPT ![col] = to_numeric(@)]]

\* dropna with subset=['age'].
dropna_age_only(rows) == SelectSeq(rows, LAMBDA r : ~isna(r["age"]))

\* jef_data.dropna(subset=['age', 'est_IQ'])
dropna(rows) ==
    SelectSeq(rows, LAMBDA r : ~isna(r["age"]) /\ ~isna(r["est_IQ"]))

\* jef_data.drop([...], axis=1, errors='ignore')
drop_columns(df, names) ==
    LET keep == SelectSeq(df.columns, LAMBDA c : c \notin Range(names))
    IN  [columns |-> keep,
         rows |-> [k \in 1..Len(df.rows) |-> Restrict(df.rows[k], Range(keep))]]

\* app.py:19-28, the path taken when read_excel succeeded
clean(src) ==
    drop_columns(
        [columns |-> src.columns,
         rows |-> dropna(coerce_column(coerce_column(src.rows, "age"), "est_IQ"))],
        IdColumns)

\* app.py:8-28
load_data(src) ==
    IF src.status = "missing"
    THEN [df |-> EmptyDataFrame,
          msgs |-> <<Error("Data file not found. Please check file path.")>>]
    ELSE IF src.status # "ok"
    THEN [df |-> EmptyDataFrame,
          msgs |-> <<Error("An error occurred while loading the data")>>]
    ELSE [df |-> clean(src), msgs |-> <<>>]

---------------------------------------------------------------------------
\* calculate_stats

RECURSIVE SumSeq(_)
SumSeq(xs) == IF xs = <<>> THEN 0 ELSE xs[1] + SumSeq(Tail(xs))

\* The present (non-missing) values of a column, as integers.
Present(cells) ==
    LET kept == SelectSeq(cells, LAMBDA c : ~isna(c))
    IN  [k \in 1..Len(kept) |-> kept[k].v]

Squares(xs) == [k \in 1..Len(xs) |-> xs[k] * xs[k]]

NaNMean == [t |-> "nan", num |-> 0, den |-> 1]
NaNSd == [t |-> "nan", sqnum |-> 0, sqden |-> 1]
NaNZ == [t |-> "nan", sign |-> 0, sqnum |-> 0, sqden |-> 1]
InfZ(sign) == [t |-> "inf", sign |-> sign, sqnum |-> 0, sqden |-> 1]

Sign(x) == IF x > 0 THEN 1 ELSE IF x < 0 THEN -1 ELSE 0

RECURSIVE GCD(_, _)
GCD(a, b) == IF b = 0 THEN a ELSE GCD(b, a % b)

\* The fraction n/d (n >= 0, d > 0) in lowest terms.
Reduce(n, d) == [num |-> n \div GCD(n, d), den |-> d \div GCD(n, d)]

\* The product of two fractions in lowest terms, cancelling before
\* multiplying.
FracMul(a, b) ==
    LET g1 == GCD(a.num, b.den)
        g2 == GCD(b.num, a.den)
    IN  Reduce((a.num \div g1) * (b.num \div g2), (a.den \div g2) * (b.den \div g1))

\* Series.mean(), skipping missing values: sum / count, NaN without values.
Mean(cells) ==
    LET xs == Present(cells)
    IN  IF Len(xs) = 0 THEN NaNMean
        ELSE [t |-> "num", num |-> SumSeq(xs), den |-> Len(xs)]

\* Series.std(), ddof=1, skipping missing values: the square of the result is
\* sum((x - mean)^2) / (n - 1) = (n * sum(x^2) - sum(x)^2) / (n * (n - 1)),
\* NaN with fewer than two values.
Std(cells) ==
    LET xs == Present(cells)
        n == Len(xs)
    IN  IF n <= 1 THEN NaNSd
        ELSE [t |-> "num",
              sqnum |-> n * SumSeq(Squares(xs)) - SumSeq(xs) * SumSeq(xs),
              sqden |-> n * (n - 1)]

sd_is_zero(sd) == sd.t = "num" /\ sd.sqnum = 0

\* (score - mean) / sd in float arithmetic: NaN propagates, x / 0 is an
\* infinity of x's sign and 0 / 0 is NaN.
Divide(score, mean, sd) ==
    IF isna(score) \/ mean.t = "nan" \/ sd.t = "nan" THEN NaNZ
    ELSE LET d == score.v * mean.den - mean.num     \* (score - mean) * den
         IN  IF sd.sqnum = 0
             THEN IF d = 0 THEN NaNZ ELSE InfZ(Sign(d))
             ELSE LET sq == FracMul(Reduce(d * d, mean.den * mean.den),
                                    Reduce(sd.sqden, sd.sqnum))
                  IN  [t |-> "num", sign |-> Sign(d),
                       sqnum |-> sq.num, sqden |-> sq.den]

\* The division without the test of sd.
ZScoreUnguarded(score, mean, sd) == Divide(score, mean, sd)

\* app.py:44-47, one iteration of the loop
ZScore(score, mean, sd) ==
    IF sd_is_zero(sd) \/ sd.t = "nan" THEN NaNZ
    ELSE Divide(score, mean, sd)

\* filtered_df.iloc[:, :9]: the first nine columns by position
iloc9(df) ==
    SubSeq(df.columns, 1, IF Len(df.columns) < 9 THEN Len(df.columns) ELSE 9)

StatsTable(filtered, patient_scores) ==
    LET cols == iloc9(filtered)
        means == [i \in 1..Len(cols) |-> Mean(ColumnValues(filtered, cols[i]))]
        sds == [i \in 1..Len(cols) |-> Std(ColumnValues(filtered, cols[i]))]
        \* zip stops at the shortest of its arguments
        m == IF Len(cols) < Len(patient_scores) THEN Len(cols)
             ELSE Len(patient_scores)
        zs == [i \in 1..m |-> ZScore(patient_scores[i], means[i], sds[i])]
    IN  [stats_df |-> [i \in 1..Len(jef_constructs) |->
                          [construct |-> jef_constructs[i],
                           mean |-> means[i],
                           sd |-> sds[i],
                           z_score |-> zs[i]]],
         z_scores |-> zs,
         msgs |-> <<>>]

\* calculate_stats without the test of filtered_df.empty.
calculate_stats_no_empty_check(filtered, patient_scores) ==
    StatsTable(filtered, patient_scores)

calculate_stats(filtered, patient_scores) ==
    IF df_empty(filtered)
    THEN [stats_df |-> <<>>, z_scores |-> <<>>,
          msgs |-> <<Warning("No data available for the selected age and IQ range.")>>]
    ELSE StatsTable(filtered, patient_scores)

---------------------------------------------------------------------------
\* create_zscore_plot

\* Annotation heights are kept in tenths of a y-axis unit (-4.8 is -48).

\* The annotations with the heights of the first and the third exchanged.
annotations_n_on_top(age_range, iq_range, n_samples) ==
    << [label |-> "N", args |-> <<n_samples>>,
        x |-> 1, y_tenths |-> -40, xanchor |-> "right"],
       [label |-> "Age range", args |-> <<age_range[1], age_range[2]>>,
        x |-> 1, y_tenths |-> -44, xanchor |-> "right"],
       [label |-> "IQ range", args |-> <<iq_range[1], iq_range[2]>>,
        x |-> 1, y_tenths |-> -48, xanchor |-> "right"] >>

\* app.py:92-96
annotations(age_range, iq_range, n_samples) ==
    << [label |-> "N", args |-> <<n_samples>>,
        x |-> 1, y_tenths |-> -48, xanchor |-> "right"],
       [label |-> "Age range", args |-> <<age_range[1], age_range[2]>>,
        x |-> 1, y_tenths |-> -44, xanchor |-> "right"],
       [label |-> "IQ range", args |-> <<iq_range[1], iq_range[2]>>,
        x |-> 1, y_tenths |-> -40, xanchor |-> "right"] >>

Figure(stats, age_range, iq_range, n_samples, yrange) ==
    [bar_x |-> [i \in 1..Len(stats) |-> stats[i].construct],
     bar_y |-> [i \in 1..Len(stats) |-> stats[i].z_score],
     hlines |-> << [y |-> -2, line_dash |-> "dash"],
                   [y |-> 0, line_dash |-> "solid"] >>,
     yaxis_range |-> yrange,
     yaxis_tickmode |-> "linear",
     yaxis_dtick |-> 1,
     annotations |-> annotations(age_range, iq_range, n_samples)]

\* A figure whose y-axis follows the data: it widens to hold the sample size.
create_zscore_plot_autorange(stats, age_range, iq_range, n_samples) ==
    Figure(stats, age_range, iq_range, n_samples, <<-5, n_samples>>)

create_zscore_plot(stats, age_range, iq_range, n_samples) ==
    Figure(stats, age_range, iq_range, n_samples, <<-5, 1>>)

---------------------------------------------------------------------------
\* main

\* between with both bounds excluded.
between_exclusive(c, lo, hi) == ~isna(c) /\ lo < c.v /\ c.v < hi

\* Series.between(lo, hi), inclusive on both sides; a missing value is outside
between(c, lo, hi) == ~isna(c) /\ lo <= c.v /\ c.v <= hi

\* app.py:149-152
filter(df, age_range, iq_range) ==
    [columns |-> df.columns,
     rows |-> SelectSeq(df.rows,
                 LAMBDA r : between(r["age"], age_range[1], age_range[2])
                            /\ between(r["est_IQ"], iq_range[1], iq_range[2]))]

\* The score list with PL and PR exchanged.
patient_scores_pr_first(w) ==
    <<w["PR"], w["PL"], w["ST"], w["CT"], w["AT"],
      w["EBPM"], w["ABPM"], w["TBPM"], w["AVG"]>>

\* app.py:155, w the values of the nine number inputs
patient_scores(w) ==
    <<w["PL"], w["PR"], w["ST"], w["CT"], w["AT"],
      w["EBPM"], w["ABPM"], w["TBPM"], w["AVG"]>>

\* The validation left out.
never_isna(scores) == FALSE

\* any(pd.isna(patient_scores))
any_isna(scores) == \E i \in 1..Len(scores) : isna(scores[i])

\* app.py:147-175, the body run when the button was pressed
calculate(df, age_range, iq_range, w) ==
    LET filtered == filter(df, age_range, iq_range)
        scores == patient_scores(w)
        res == calculate_stats(filtered, scores)
    IN  IF any_isna(scores)
        THEN [filtered |-> filtered, stats_called |-> FALSE,
              stats_df |-> <<>>, z_scores |-> <<>>,
              msgs |-> <<Error("Please enter valid scores for all parameters.")>>,
              fig |-> <<>>]
        ELSE [filtered |-> filtered, stats_called |-> TRUE,
              stats_df |-> res.stats_df, z_scores |-> res.z_scores,
              msgs |-> res.msgs,
              fig |-> IF Len(res.stats_df) = 0 THEN <<>>
                      ELSE <<create_zscore_plot(res.stats_df, age_range, iq_range,
                                                Len(filtered.rows))>>]

---------------------------------------------------------------------------
\* The sidebar

\* What the user can move the sliders to (the initial selections included).
AgeRanges == { <<18, 120>>, <<18, 30>>, <<200, 250>> }
IqRanges == { <<70, 180>>, <<100, 140>> }

\* The edits of the number inputs: a new PL score, and an AVG left without a
\* value.
ScoreEdits == { <<"PL", Num(40)>>, <<"AVG", NaN>> }

\* app.py:114-143, the value= of every widget.  Scores are integers here, so
\* the AVG input starts at 47 where the code has 46.9.
InitialSidebar ==
    [age_range |-> <<18, 120>>,
     iq_range |-> <<70, 180>>,
     scores |-> [c \in Range(jef_constructs) |->
                   CASE c = "PL" -> Num(50)
                     [] c = "PR" -> Num(100)
                     [] c = "ST" -> Num(50)
                     [] c = "CT" -> Num(25)
                     [] c = "AT" -> Num(0)
                     [] c = "EBPM" -> Num(25)
                     [] c = "ABPM" -> Num(75)
                     [] c = "TBPM" -> Num(50)
                     [] c = "AVG" -> Num(47)]]

---------------------------------------------------------------------------
\* The session: every action is one run of main

Init ==
    /\ source \in SourcePool
    /\ pc = "start"
    /\ jef_df = EmptyDataFrame
    /\ messages = <<>>
    /\ sidebar = <<>>
    /\ pressed = FALSE
    /\ filtered_df = <<>>
    /\ stats_called = FALSE
    /\ stats_df = <<>>
    /\ z_scores = <<>>
    /\ fig = <<>>

\* main without the early return.
returns_never(df) == FALSE

\* app.py:107, the test that ends main after load_data
returns_after_load(df) == df_empty(df)

\* The first run: app.py:103-145.  The button cannot have been pressed yet.
LoadData ==
    /\ pc = "start"
    /\ LET r == load_data(source)
       IN  /\ jef_df' = r.df
           /\ messages' = r.msgs
           /\ IF returns_after_load(r.df)
              THEN pc' = "returned" /\ sidebar' = <<>>
              ELSE pc' = "ready" /\ sidebar' = <<InitialSidebar>>
    /\ UNCHANGED <<source, pressed, filtered_df, stats_called, stats_df,
                   z_scores, fig>>

\* A run in which the button is not pressed shows the sidebar and nothing
\* else: app.py:103-147 with calculate false.
NothingCalculated ==
    /\ pressed' = FALSE
    /\ messages' = <<>>
    /\ filtered_df' = <<>>
    /\ stats_called' = FALSE
    /\ stats_df' = <<>>
    /\ z_scores' = <<>>
    /\ fig' = <<>>

\* The user moves the age slider; main runs again.
SetAgeRange ==
    /\ pc = "ready"
    /\ \E a \in AgeRanges : sidebar' = <<[sidebar[1] EXCEPT !.age_range = a]>>
    /\ NothingCalculated
    /\ UNCHANGED <<source, pc, jef_df>>

\* The user moves the IQ slider; main runs again.
SetIqRange ==
    /\ pc = "ready"
    /\ \E q \in IqRanges : sidebar' = <<[sidebar[1] EXCEPT !.iq_range = q]>>
    /\ NothingCalculated
    /\ UNCHANGED <<source, pc, jef_df>>

\* The user edits a number input; main runs again.
SetScore ==
    /\ pc = "ready"
    /\ \E e \in ScoreEdits :
          sidebar' = <<[sidebar[1] EXCEPT !.scores[e[1]] = e[2]]>>
    /\ NothingCalculated
    /\ UNCHANGED <<source, pc, jef_df>>

\* The user presses Calculate; main runs with calculate true: app.py:147-175.
Calculate ==
    /\ pc = "ready"
    /\ LET w == sidebar[1]
           r == calculate(jef_df, w.age_range, w.iq_range, w.scores)
       IN  /\ pressed' = TRUE
           /\ messages' = r.msgs
           /\ filtered_df' = <<r.filtered>>
           /\ stats_called' = r.stats_called
           /\ stats_df' = r.stats_df
           /\ z_scores' = r.z_scores
           /\ fig' = r.fig
    /\ UNCHANGED <<source, pc, jef_df, sidebar>>

Next == LoadData \/ SetAgeRange \/ SetIqRange \/ SetScore \/ Calculate

Spec == Init /\ [][Next]_vars

---------------------------------------------------------------------------
\* Properties

\* The number of rows of a table equal to r.
Count(rows, r) == Cardinality({k \in 1..Len(rows) : rows[k] = r})

ScoresPresent == \A c \in Range(jef_constructs) : sidebar[1].scores[c].t = "num"

\* A run that pressed the button, had valid scores and a non-empty subset.
StatsComputed ==
    pressed /\ stats_called /\ filtered_df # <<>> /\ Len(filtered_df[1].rows) > 0

\* C1: on Calculate the filtered subset holds exactly the loaded records whose
\* age and est_IQ both lie within the selected ranges, bounds included: each
\* such record as often as it is loaded, and no other record.
C1_FilterIsTheInclusiveSubset ==
    pressed =>
        LET a == sidebar[1].age_range
            q == sidebar[1].iq_range
            f == filtered_df[1].rows
            Inside(r) == /\ r["age"].t = "num" /\ r["est_IQ"].t = "num"
                         /\ a[1] <= r["age"].v /\ r["age"].v <= a[2]
                         /\ q[1] <= r["est_IQ"].v /\ r["est_IQ"].v <= q[2]
        IN  /\ filtered_df[1].columns = jef_df.columns
            /\ \A r \in Range(jef_df.rows) \cup Range(f) :
                  Count(f, r) = IF Inside(r) THEN Count(jef_df.rows, r) ELSE 0

\* The subset handed to calculate_stats holds a record whose age is the lower
\* bound and one whose age is the upper bound, and leaves a loaded record out.
C1_Witness ==
    /\ pressed /\ stats_called
    /\ \E r \in Range(filtered_df[1].rows) : r["age"].v = sidebar[1].age_range[1]
    /\ \E r \in Range(filtered_df[1].rows) : r["age"].v = sidebar[1].age_range[2]
    /\ Len(filtered_df[1].rows) < Len(jef_df.rows)

\* C2: when the filtered subset is empty (and the scores are valid, so that
\* calculate_stats is invoked), calculate_stats shows the warning and returns
\* an empty statistics table and an empty z-score list, and no chart is built.
C2_EmptySubsetWarnsAndStops ==
    (pressed /\ ScoresPresent /\ Len(filtered_df[1].rows) = 0) =>
        /\ stats_called
        /\ messages = <<Warning("No data available for the selected age and IQ range.")>>
        /\ stats_df = <<>>
        /\ z_scores = <<>>
        /\ fig = <<>>

\* Ages 200 to 250 select nothing from a loaded table.
C2_Witness ==
    /\ pressed /\ ScoresPresent /\ stats_called
    /\ sidebar[1].age_range = <<200, 250>>
    /\ Len(jef_df.rows) > 0
    /\ Len(filtered_df[1].rows) = 0

\* C4: when a score is missing on Calculate, the error is shown and
\* calculate_stats is not invoked: no statistics, no warning, no chart.
C4_MissingScoreIsRejectedFirst ==
    (pressed /\ ~ScoresPresent) =>
        /\ messages = <<Error("Please enter valid scores for all parameters.")>>
        /\ ~stats_called
        /\ stats_df = <<>>
        /\ z_scores = <<>>
        /\ fig = <<>>

\* A missing score together with an empty filtered subset.
C4_Witness ==
    /\ pressed /\ ~ScoresPresent
    /\ Len(filtered_df[1].rows) = 0

\* C3: with a non-empty subset, a construct whose reference SD (the sd of its
\* statistics record) is zero or undefined gets the z-score NaN, never an
\* infinity; every other construct still gets a numeric z-score, all nine
\* records are returned, and the chart is built with those z-scores.
C3_DegenerateSdGivesNaN ==
    StatsComputed =>
        /\ Len(stats_df) = Len(jef_constructs)
        /\ Len(z_scores) = Len(jef_constructs)
        /\ \A i \in 1..Len(stats_df) :
              /\ z_scores[i] = stats_df[i].z_score
              /\ z_scores[i].t # "inf"
              /\ (stats_df[i].sd.t = "nan" \/ stats_df[i].sd.sqnum = 0)
                    => z_scores[i].t = "nan"
              /\ (stats_df[i].sd.t = "num" /\ stats_df[i].sd.sqnum # 0)
                    => z_scores[i].t = "num"
        /\ fig # <<>>
        /\ fig[1].bar_x = jef_constructs
        /\ fig[1].bar_y = z_scores

\* One run with a constant construct (SD zero), a construct without any
\* present value, a construct with a single present value (SD undefined, mean
\* defined) and a construct with a numeric z-score.
C3_Witness ==
    /\ StatsComputed
    /\ \E i \in 1..Len(stats_df) :
          stats_df[i].sd.t = "num" /\ stats_df[i].sd.sqnum = 0
    /\ \E i \in 1..Len(stats_df) :
          stats_df[i].sd.t = "nan" /\ stats_df[i].mean.t = "nan"
    /\ \E i \in 1..Len(stats_df) :
          stats_df[i].sd.t = "nan" /\ stats_df[i].mean.t = "num"
    /\ \E i \in 1..Len(stats_df) : z_scores[i].t = "num"

\* A cell that holds a number, as a number or as a numeral.
IsNumeric(c) == c.t = "num" \/ (c.t = "text" /\ ParseNumber(c.s) # <<>>)
NumericValue(c) == IF c.t = "num" THEN c.v ELSE ParseNumber(c.s)[1]

\* The source rows load_data has to keep.
Kept == { k \in 1..Len(source.rows) :
            IsNumeric(source.rows[k]["age"]) /\ IsNumeric(source.rows[k]["est_IQ"]) }

\* C5: after a successful read every loaded record has a numeric age and a
\* numeric est_IQ; a covariate that is no number is missing, not an error; the
\* loaded records are exactly the source rows whose age and est_IQ are both
\* numbers, in source order, with their construct values untouched.
C5_LoadKeepsExactlyTheNumericRows ==
    (pc # "start" /\ source.status = "ok") =>
        /\ pc = "returned" => (messages = <<>> /\ Len(jef_df.rows) = 0)
        /\ \A i \in 1..Len(messages) :
              messages[i] \notin
                 { Error("Data file not found. Please check file path."),
                   Error("An error occurred while loading the data") }
        /\ \A j \in 1..Len(jef_df.rows) :
              jef_df.rows[j]["age"].t = "num" /\ jef_df.rows[j]["est_IQ"].t = "num"
        /\ Len(jef_df.rows) = Cardinality(Kept)
        /\ \A k \in Kept :
              LET j == Cardinality({k2 \in Kept : k2 <= k})
                  r == jef_df.rows[j]
              IN  /\ r["age"] = Num(NumericValue(source.rows[k]["age"]))
                  /\ r["est_IQ"] = Num(NumericValue(source.rows[k]["est_IQ"]))
                  /\ \A c \in Range(jef_constructs) : r[c] = source.rows[k][c]

\* A table with an age that is no number, a missing est_IQ and a row whose
\* covariates are numerals: the first two are dropped, the third is kept.
C5_Witness ==
    /\ pc = "ready"
    /\ \E k \in 1..Len(source.rows) :
          source.rows[k]["age"].t = "text" /\ ~IsNumeric(source.rows[k]["age"])
    /\ \E k \in 1..Len(source.rows) : source.rows[k]["est_IQ"].t = "nan"
    /\ \E k \in Kept : source.rows[k]["age"].t = "text"
    /\ Len(jef_df.rows) = 1

\* C6: when the read fails, the error shown is the not-found one for a missing
\* file and the general one otherwise, main returns, and in no later state has
\* the sidebar been built or anything been filtered, computed or drawn.
C6_LoadFailureIsFatal ==
    (pc # "start" /\ source.status # "ok") =>
        /\ messages =
              IF source.status = "missing"
              THEN <<Error("Data file not found. Please check file path.")>>
              ELSE <<Error("An error occurred while loading the data")>>
        /\ pc = "returned"
        /\ df_empty(jef_df)
        /\ sidebar = <<>>
        /\ ~pressed
        /\ filtered_df = <<>>
        /\ ~stats_called
        /\ stats_df = <<>>
        /\ z_scores = <<>>
        /\ fig = <<>>

\* The file exists and cannot be read, and load_data has run.
C6_Witness == pc = "returned" /\ source.status = "corrupt"

\* The height of the annotation with the given label.
AnnotationY(label) ==
    LET i == CHOOSE i \in 1..Len(fig[1].annotations) :
                 fig[1].annotations[i].label = label
    IN  fig[1].annotations[i].y_tenths

AnnotationLabels ==
    [i \in 1..Len(fig[1].annotations) |-> fig[1].annotations[i].label]

\* C7 as stated: the sample size on top, the age range in the middle, the IQ
\* range at the bottom, all three with their right edge as anchor.
C7_SampleSizeOnTop ==
    fig # <<>> =>
        /\ AnnotationLabels = <<"N", "Age range", "IQ range">>
        /\ AnnotationY("N") > AnnotationY("Age range")
        /\ AnnotationY("Age range") > AnnotationY("IQ range")
        /\ \A i \in 1..3 : fig[1].annotations[i].xanchor = "right"

\* C7, amended: the chart has the three annotations N, age range and IQ
\* range, filled from the sample size and the ranges of the run, all anchored
\* by their right edge at x = 1; the IQ range is on top (y = -4), the age
\* range in the middle (y = -4.4) and the sample size at the bottom (y = -4.8).
C7_IqRangeOnTop ==
    fig # <<>> =>
        /\ AnnotationLabels = <<"N", "Age range", "IQ range">>
        /\ AnnotationY("IQ range") = -40
        /\ AnnotationY("Age range") = -44
        /\ AnnotationY("N") = -48
        /\ fig[1].annotations[1].args = <<Len(filtered_df[1].rows)>>
        /\ fig[1].annotations[2].args = sidebar[1].age_range
        /\ fig[1].annotations[3].args = sidebar[1].iq_range
        /\ \A i \in 1..3 :
              fig[1].annotations[i].xanchor = "right" /\ fig[1].annotations[i].x = 1

\* A chart was built for a subset of two or more records.
C7_Witness == fig # <<>> /\ Len(filtered_df[1].rows) >= 2

\* C8: the record labelled with a construct carries the mean and the sample
\* SD of the column of that name over the filtered subset, the nine records
\* being in the fixed order.
C8_StatsAreOfTheNamedColumn ==
    StatsComputed =>
        /\ Len(stats_df) = Len(jef_constructs)
        /\ \A i \in 1..Len(jef_constructs) :
              /\ stats_df[i].construct = jef_constructs[i]
              /\ stats_df[i].mean = Mean(ColumnValues(filtered_df[1], jef_constructs[i]))
              /\ stats_df[i].sd = Std(ColumnValues(filtered_df[1], jef_constructs[i]))

\* C9: every chart has the y-axis range [-5, 1] with linear ticks 1 apart and
\* exactly two horizontal lines, a dashed one at -2 and a solid one at 0.
C9_AxisAndReferenceLinesAreFixed ==
    fig # <<>> =>
        /\ fig[1].yaxis_range = <<-5, 1>>
        /\ fig[1].yaxis_tickmode = "linear"
        /\ fig[1].yaxis_dtick = 1
        /\ Len(fig[1].hlines) = 2
        /\ \E i \in 1..2 : fig[1].hlines[i] = [y |-> -2, line_dash |-> "dash"]
        /\ \E i \in 1..2 : fig[1].hlines[i].y = 0

\* A chart of two or more records with a bar that ends above the axis range
\* (z > 1).
C9_Witness ==
    /\ fig # <<>>
    /\ Len(filtered_df[1].rows) >= 2
    /\ \E i \in 1..Len(z_scores) :
          /\ z_scores[i].t = "num" /\ z_scores[i].sign = 1
          /\ z_scores[i].sqnum > z_scores[i].sqden

\* C10: for the construct at position i whose record has a defined, non-zero
\* SD, the z-score is (s - m) / sd, s being the score entered for that
\* construct and m, sd the mean and SD of the i-th record: z has the sign of
\* s - m, and z^2 * sd^2 = (s - m)^2.
C10_ZScoreFormula ==
    StatsComputed =>
        \A i \in 1..Len(jef_constructs) :
            LET s == sidebar[1].scores[jef_constructs[i]]
                m == stats_df[i].mean
                sd == stats_df[i].sd
                z == z_scores[i]
                d == s.v * m.den - m.num
            IN  (sd.t = "num" /\ sd.sqnum # 0) =>
                    /\ m.t = "num"
                    /\ z.t = "num"
                    /\ z.sign = Sign(d)
                    /\ FracMul(Reduce(z.sqnum, z.sqden), Reduce(sd.sqnum, sd.sqden))
                          = Reduce(d * d, m.den * m.den)

\* PL is the first column, its mean is 50 and its SD 10, the PL score is 40
\* and z(PL) is -1.
C10_Witness ==
    /\ StatsComputed
    /\ filtered_df[1].columns[1] = "PL"
    /\ sidebar[1].scores["PL"] = Num(40)
    /\ stats_df[1].construct = "PL"
    /\ stats_df[1].mean.num = 50 * stats_df[1].mean.den
    /\ stats_df[1].sd.sqnum = 100 * stats_df[1].sd.sqden
    /\ z_scores[1].sign = -1
    /\ z_scores[1].sqnum = z_scores[1].sqden

====
